---- MODULE Spec2Model ----
(***************************************************************************)
(* Model of core/src/sql/db_connection_pool/dbconnection/duckdbconn.rs:    *)
(* the DuckDB connection adapter.  One pooled connection (conn), one       *)
(* optional DuckDBAttachments, and the streaming session query_arrow       *)
(* builds: the cloned connection, the blocking worker, the bounded batch   *)
(* channel and the consumer-facing output stream.                          *)
(*                                                                         *)
(* The native engine is opaque: every engine call (prepare, execute,       *)
(* ATTACH, DETACH, SET/RESET search_path, try_clone) either succeeds or    *)
(* returns an error, chosen nondeterministically.  The file system is      *)
(* external too: each attach reads which auxiliary files exist as an       *)
(* input.  Attached catalogs and the search path are state of one          *)
(* connection (source lines 392-393: a clone is a new session that needs   *)
(* its own ATTACHments and search_path).                                   *)
(*                                                                         *)
(* One streaming session is modelled at a time: the caller starts the next *)
(* query_arrow when the previous stream is finished or dropped and its     *)
(* worker has ended.                                                       *)
(***************************************************************************)
EXTENDS Integers, Sequences, FiniteSets, TLC

\* ---------------------------------------------------------------- bounds
MaxAtt == 2        \* most auxiliary databases in the Attachment Set
MaxBatches == 5    \* most batches the engine's ArrowStream produces
MaxCalls == 2      \* most calls of query_arrow in one behaviour

\* ------------------------------------------------------ program constants
ChannelCapacity == 4   \* tokio::sync::mpsc::channel::<RecordBatch>(4)

VARIABLES
  attachments,  \* self.attachments: [some, n]; n unique paths, iterated 0..n-1
  conn,         \* self.conn: [attached, search_path] of the pooled connection
  cpc,          \* where the caller is inside query_arrow ("idle" outside)
  last,         \* the last facade operation that returned: [op, res]
  schema,       \* TRUE once the probe's schema was taken (line 388)
  clone,        \* the try_clone'd connection: [st, attached, search_path]
  task,         \* the spawn_blocking worker / join_handle
  task_error,   \* the error the worker returned, "none" if none
  item,         \* the batch `i` the worker holds while sending, 0 if none
  produced,     \* number of batches the ArrowStream iterator has produced
  batch_chan,   \* batches queued in the mpsc channel
  batch_tx,     \* TRUE while the Sender is alive
  batch_rx,     \* TRUE while the Receiver is alive
  pushed,       \* batches blocking_channel_send has delivered, in order
  stream,       \* where the output stream is
  out,          \* the elements the output stream has yielded, in order
  users,        \* for each native handle, the threads that ran a call on it
  calls,        \* calls of query_arrow begun
  oks,          \* calls of query_arrow that returned a stream
  clones,       \* native sessions created by try_clone
  workers,      \* blocking tasks spawned
  fn_in,        \* the arguments of the last call of a function under study
  fn_out        \* what that call returned

vars == << attachments, conn, cpc, last, schema, clone, task, task_error, item,
           produced, batch_chan, batch_tx, batch_rx, pushed, stream, out, users,
           calls, oks, clones, workers, fn_in, fn_out >>

\* The variables of the studies of single functions.
study == << fn_in, fn_out >>

NoCall == [op |-> "none"]

session == << clone, task, task_error, item, produced, batch_chan, batch_tx,
              batch_rx, pushed, stream, out >>

counters == << calls, oks, clones, workers >>

\* ------------------------------------------------------------ value sets
AttIdx(n) == 0 .. (n - 1)

SearchPaths == {"default", "set"}

TaskRunning == {"attached", "prepared", "iter", "send", "detach"}

TaskEnded == {"ok", "err", "panic", "cancelled"}

DefaultConn == [attached |-> {}, search_path |-> "default"]

NoClone == [st |-> "none", attached |-> {}, search_path |-> "default"]

\* An element of the output stream: Ok(batch) or Err(DataFusionError::Execution).
OkItem(b) == [tag |-> "batch", id |-> b, cause |-> "none"]

ErrItem(cause) == [tag |-> "error", id |-> 0, cause |-> cause]

\* ------------------------------------------- DuckDBAttachments (lines 67-172)
\* SET search_path = '<precomputed>'; `fails` is the engine's answer.
set_search_path(c, fails) ==
  IF fails
    THEN [conn |-> c, res |-> "engine", path |-> -1]
    ELSE [conn |-> [c EXCEPT !.search_path = "set"], res |-> "ok", path |-> -1]

\* Mutant: reports success without resetting the search path.
reset_search_path_keeps(c, fails) ==
  IF fails
    THEN [conn |-> c, res |-> "engine", path |-> -1]
    ELSE [conn |-> c, res |-> "ok", path |-> -1]

\* RESET search_path
reset_search_path(c, fails) ==
  IF fails
    THEN [conn |-> c, res |-> "engine", path |-> -1]
    ELSE [conn |-> [c EXCEPT !.search_path = "default"], res |-> "ok", path |-> -1]

\* ATTACH IF NOT EXISTS '<db>' AS attachment_<id>_<i> (READ_ONLY)
engine_attach(c, i) == [c EXCEPT !.attached = @ \cup {i}]

\* DETACH attachment_<id>_<i>: an error when that alias is not attached.
engine_detach_ok(c, i) == i \in c.attached

engine_detach(c, i) == [c EXCEPT !.attached = @ \ {i}]

\* Mutant: the file is looked for only after its ATTACH statement ran.
RECURSIVE attach_from_check_after(_, _, _, _, _)
attach_from_check_after(c, i, n, present, f) ==
  IF i >= n THEN set_search_path(c, f = n)
  ELSE IF f = i THEN [conn |-> c, res |-> "engine", path |-> -1]
  ELSE IF i \notin present
    THEN [conn |-> engine_attach(c, i), res |-> "missing", path |-> i]
  ELSE attach_from_check_after(engine_attach(c, i), i + 1, n, present, f)

\* The loop of attach from index i on: `present` are the paths whose file
\* exists, f the index of the engine statement that fails (n: SET search_path,
\* n + 1: none).
RECURSIVE attach_from(_, _, _, _, _)
attach_from(c, i, n, present, f) ==
  IF i >= n THEN set_search_path(c, f = n)
  ELSE IF i \notin present THEN [conn |-> c, res |-> "missing", path |-> i]
  ELSE IF f = i THEN [conn |-> c, res |-> "engine", path |-> -1]
  ELSE attach_from(engine_attach(c, i), i + 1, n, present, f)

attach(c, n, present, f) == attach_from(c, 0, n, present, f)

\* Mutant: a detach that fails resets the search path before it returns.
RECURSIVE detach_from_resets_on_error(_, _, _, _)
detach_from_resets_on_error(c, i, n, f) ==
  IF i >= n THEN reset_search_path(c, f = n)
  ELSE IF f = i \/ ~engine_detach_ok(c, i)
    THEN [conn |-> [c EXCEPT !.search_path = "default"], res |-> "engine",
          path |-> -1]
  ELSE detach_from_resets_on_error(engine_detach(c, i), i + 1, n, f)

RECURSIVE detach_from(_, _, _, _)
detach_from(c, i, n, f) ==
  IF i >= n THEN reset_search_path(c, f = n)
  ELSE IF f = i \/ ~engine_detach_ok(c, i)
    THEN [conn |-> c, res |-> "engine", path |-> -1]
  ELSE detach_from(engine_detach(c, i), i + 1, n, f)

detach(c, n, f) == detach_from(c, 0, n, f)

\* DuckDbConnection::attach / detach: passthrough if the Option is Some.
conn_attach(c, atts, present, f) ==
  IF atts.some THEN attach(c, atts.n, present, f)
  ELSE [conn |-> c, res |-> "ok", path |-> -1]

conn_detach(c, atts, f) ==
  IF atts.some THEN detach(c, atts.n, f)
  ELSE [conn |-> c, res |-> "ok", path |-> -1]

\* A call on native handle h made by thread t.
Use(u, h, t) == [u EXCEPT ![h] = @ \cup {t}]

\* Attach and detach touch the handle only when there is an Attachment Set.
UseIf(u, h, t, cond) == IF cond THEN Use(u, h, t) ELSE u

ConnPart(c) == [attached |-> c.attached, search_path |-> c.search_path]


\* ------------------------------------------------------------------ Init
\* A connection just made by SyncDbConnection::new, on which nothing ran.
Fresh ==
  /\ conn = DefaultConn
  /\ cpc = "idle"
  /\ last = [op |-> "none", res |-> "none"]
  /\ schema = FALSE
  /\ clone = NoClone
  /\ task = "none"
  /\ task_error = "none"
  /\ item = 0
  /\ produced = 0
  /\ batch_chan = << >>
  /\ batch_tx = FALSE
  /\ batch_rx = FALSE
  /\ pushed = << >>
  /\ stream = "none"
  /\ out = << >>
  /\ users = [orig |-> {}, clone |-> {}]
  /\ calls = 0
  /\ oks = 0
  /\ clones = 0
  /\ workers = 0

\* What no function studied on its own touches.
facade == << conn, cpc, last, schema, session, users, counters >>

\* SyncDbConnection::new then with_attachments: a fresh pooled connection,
\* with no Attachment Set or one of n unique paths; no query has run.
Init ==
  /\ attachments \in {[some |-> FALSE, n |-> 0]}
                     \cup {[some |-> TRUE, n |-> k] : k \in 0 .. MaxAtt}
  /\ Fresh
  /\ fn_in = NoCall
  /\ fn_out = NoCall

\* ------------------------------------------- query_arrow, the caller's part
\* The previous streaming session is over: its stream ended or was dropped
\* and its worker has ended.
SessionOver ==
  /\ stream \in {"none", "end", "dropped"}
  /\ task \in {"none"} \cup TaskEnded

\* `?` on an error: query_arrow returns it; the channel's two ends, still
\* owned by the caller, are dropped.
ReturnErr(res) ==
  /\ cpc' = "idle"
  /\ last' = [op |-> "query_arrow", res |-> res]
  /\ batch_tx' = FALSE
  /\ batch_rx' = FALSE

\* Lines 370-372: create the channel, attach on the caller's connection.
QueryArrowAttach ==
  /\ cpc = "idle"
  /\ SessionOver
  /\ calls < MaxCalls
  /\ calls' = calls + 1
  /\ \E present \in SUBSET AttIdx(attachments.n), f \in 0 .. (attachments.n + 1) :
       LET r == conn_attach(conn, attachments, present, f) IN
         /\ conn' = r.conn
         /\ IF r.res = "ok"
              THEN /\ cpc' = "attached"
                   /\ batch_tx' = TRUE
                   /\ batch_rx' = TRUE
                   /\ UNCHANGED last
              ELSE ReturnErr("attach_err")
  /\ users' = UseIf(users, "orig", "caller", attachments.some)
  /\ schema' = FALSE
  /\ clone' = NoClone
  /\ task' = "none"
  /\ task_error' = "none"
  /\ item' = 0
  /\ produced' = 0
  /\ batch_chan' = << >>
  /\ pushed' = << >>
  /\ stream' = "none"
  /\ out' = << >>
  /\ UNCHANGED << attachments, oks, clones, workers >>
  /\ UNCHANGED study

\* Lines 373-379: prepare the zero-row probe.
QueryArrowPrepare ==
  /\ cpc = "attached"
  /\ \E ok \in BOOLEAN :
       IF ok THEN /\ cpc' = "prepared"
                  /\ UNCHANGED << last, batch_tx, batch_rx >>
             ELSE ReturnErr("prepare_err")
  /\ users' = Use(users, "orig", "caller")
  /\ UNCHANGED << attachments, conn, schema, clone, task, task_error, item,
                  produced, batch_chan, pushed, stream, out, counters >>
  /\ UNCHANGED study

\* Lines 381-384: run the probe.
QueryArrowProbe ==
  /\ cpc = "prepared"
  /\ \E ok \in BOOLEAN :
       IF ok THEN /\ cpc' = "probed"
                  /\ UNCHANGED << last, batch_tx, batch_rx >>
             ELSE ReturnErr("probe_err")
  /\ users' = Use(users, "orig", "caller")
  /\ UNCHANGED << attachments, conn, schema, clone, task, task_error, item,
                  produced, batch_chan, pushed, stream, out, counters >>
  /\ UNCHANGED study

\* Mutant: the schema is not taken before the connection is cloned.
QueryArrowDetach_without_schema ==
  /\ cpc = "probed"
  /\ \E f \in 0 .. (attachments.n + 1) :
       LET r == conn_detach(conn, attachments, f) IN
         /\ conn' = r.conn
         /\ IF r.res = "ok"
              THEN /\ cpc' = "detached"
                   /\ UNCHANGED << last, batch_tx, batch_rx >>
              ELSE ReturnErr("detach_err")
  /\ users' = UseIf(users, "orig", "caller", attachments.some)
  /\ UNCHANGED << attachments, schema, clone, task, task_error, item, produced,
                  batch_chan, pushed, stream, out, counters >>
  /\ UNCHANGED study

\* Lines 386-388: detach on the caller's connection, then take the schema.
QueryArrowDetach ==
  /\ cpc = "probed"
  /\ \E f \in 0 .. (attachments.n + 1) :
       LET r == conn_detach(conn, attachments, f) IN
         /\ conn' = r.conn
         /\ IF r.res = "ok"
              THEN /\ cpc' = "detached"
                   /\ schema' = TRUE
                   /\ UNCHANGED << last, batch_tx, batch_rx >>
              ELSE /\ ReturnErr("detach_err")
                   /\ UNCHANGED schema
  /\ users' = UseIf(users, "orig", "caller", attachments.some)
  /\ UNCHANGED << attachments, clone, task, task_error, item, produced,
                  batch_chan, pushed, stream, out, counters >>
  /\ UNCHANGED study

\* Lines 390-397: try_clone opens a new session to the same database.
QueryArrowClone ==
  /\ cpc = "detached"
  /\ \E ok \in BOOLEAN :
       IF ok THEN /\ cpc' = "cloned"
                  /\ clone' = [st |-> "live", attached |-> {},
                               search_path |-> "default"]
                  /\ clones' = clones + 1
                  /\ UNCHANGED << last, batch_tx, batch_rx >>
             ELSE /\ ReturnErr("clone_err")
                  /\ UNCHANGED << clone, clones >>
  /\ users' = Use(users, "orig", "caller")
  /\ UNCHANGED << attachments, conn, schema, task, task_error, item, produced,
                  batch_chan, pushed, stream, out, calls, oks, workers >>
  /\ UNCHANGED study

\* Lines 399-444: create_stream spawns the blocking task, which takes the
\* clone and the Sender, builds the output stream and returns it.
QueryArrowSpawn ==
  /\ cpc = "cloned"
  /\ task' = "queued"
  /\ workers' = workers + 1
  /\ stream' = "recv"
  /\ cpc' = "idle"
  /\ last' = [op |-> "query_arrow", res |-> "ok"]
  /\ oks' = oks + 1
  /\ UNCHANGED << attachments, conn, schema, clone, task_error, item, produced,
                  batch_chan, batch_tx, batch_rx, pushed, out, users, calls,
                  clones >>
  /\ UNCHANGED study

\* ------------------------------------------ the blocking worker (400-416)
\* Mutant: the Sender outlives the closure.
WorkerEnds_keeps_sender(t, e, c) ==
  /\ task' = t
  /\ task_error' = e
  /\ clone' = [st |-> "dropped", attached |-> c.attached,
               search_path |-> c.search_path]
  /\ batch_tx' = batch_tx
  /\ item' = 0

\* The closure is over (returned, panicked, or dropped unrun): what it owns,
\* the cloned connection and the Sender, is dropped.
WorkerEnds(t, e, c) ==
  /\ task' = t
  /\ task_error' = e
  /\ clone' = [st |-> "dropped", attached |-> c.attached,
               search_path |-> c.search_path]
  /\ batch_tx' = FALSE
  /\ item' = 0

\* The error variant a failed attach returns.
AttachError(res) == IF res = "missing" THEN "attach_missing" ELSE "attach_engine"

\* Line 401: attach on the clone.
WorkerAttach ==
  /\ task = "queued"
  /\ \E present \in SUBSET AttIdx(attachments.n), f \in 0 .. (attachments.n + 1) :
       LET r == conn_attach(ConnPart(clone), attachments, present, f) IN
         IF r.res = "ok"
           THEN /\ task' = "attached"
                /\ clone' = [st |-> "live", attached |-> r.conn.attached,
                             search_path |-> r.conn.search_path]
                /\ UNCHANGED << task_error, batch_tx, item >>
           ELSE WorkerEnds("err", AttachError(r.res), r.conn)
  /\ users' = UseIf(users, "clone", "worker", attachments.some)
  /\ UNCHANGED << attachments, conn, cpc, last, schema, produced, batch_chan,
                  batch_rx, pushed, stream, out, counters >>
  /\ UNCHANGED study

\* Line 402: prepare the statement on the clone.
WorkerPrepare ==
  /\ task = "attached"
  /\ \E ok \in BOOLEAN :
       IF ok THEN /\ task' = "prepared"
                  /\ UNCHANGED << task_error, clone, batch_tx, item >>
             ELSE WorkerEnds("err", "prepare", clone)
  /\ users' = Use(users, "clone", "worker")
  /\ UNCHANGED << attachments, conn, cpc, last, schema, produced, batch_chan,
                  batch_rx, pushed, stream, out, counters >>
  /\ UNCHANGED study

\* Mutant: a failed stream_arrow detaches the clone before the worker ends.
WorkerStream_detaches_on_error ==
  /\ task = "prepared"
  /\ \E ok \in BOOLEAN :
       IF ok THEN /\ task' = "iter"
                  /\ UNCHANGED << task_error, clone, batch_tx, item >>
             ELSE WorkerEnds("err", "stream", DefaultConn)
  /\ users' = Use(users, "clone", "worker")
  /\ UNCHANGED << attachments, conn, cpc, last, schema, produced, batch_chan,
                  batch_rx, pushed, stream, out, counters >>
  /\ UNCHANGED study

\* Lines 403-409: stream_arrow.
WorkerStream ==
  /\ task = "prepared"
  /\ \E ok \in BOOLEAN :
       IF ok THEN /\ task' = "iter"
                  /\ UNCHANGED << task_error, clone, batch_tx, item >>
             ELSE WorkerEnds("err", "stream", clone)
  /\ users' = Use(users, "clone", "worker")
  /\ UNCHANGED << attachments, conn, cpc, last, schema, produced, batch_chan,
                  batch_rx, pushed, stream, out, counters >>
  /\ UNCHANGED study

\* Line 410: the ArrowStream iterator yields the next batch, or ends.
WorkerNext ==
  /\ task = "iter"
  /\ \/ /\ produced < MaxBatches
        /\ produced' = produced + 1
        /\ item' = produced + 1
        /\ task' = "send"
     \/ /\ task' = "detach"
        /\ UNCHANGED << produced, item >>
  /\ users' = Use(users, "clone", "worker")
  /\ UNCHANGED << attachments, conn, cpc, last, schema, clone, task_error,
                  batch_chan, batch_tx, batch_rx, pushed, stream, out, counters >>
  /\ UNCHANGED study

\* Mutant: the channel takes one batch more than its capacity.
channel_full_off_by_one(ch) == Len(ch) > ChannelCapacity

\* tokio's bounded mpsc channel.
channel_full(ch) == Len(ch) >= ChannelCapacity

\* Mutant: the channel hands out the newest batch first.
channel_push_lifo(ch, b) == << b >> \o ch

channel_push(ch, b) == Append(ch, b)

channel_pop(ch) == Tail(ch)

channel_front(ch) == Head(ch)

\* Mutant: the send does not notice that the Receiver is gone.
blocking_channel_send_unchecked ==
  /\ task = "send"
  /\ ~channel_full(batch_chan)
  /\ batch_chan' = IF batch_rx THEN channel_push(batch_chan, item) ELSE batch_chan
  /\ pushed' = Append(pushed, item)
  /\ item' = 0
  /\ task' = "iter"
  /\ UNCHANGED << task_error, clone, batch_tx >>
  /\ UNCHANGED << attachments, conn, cpc, last, schema, produced, batch_rx,
                  stream, out, users, counters >>
  /\ UNCHANGED study

\* Lines 411 and 458-466: blocking_channel_send.  It returns ChannelError
\* when the Receiver is gone, waits while the channel is full, and queues
\* the batch otherwise.
blocking_channel_send ==
  /\ task = "send"
  /\ IF ~batch_rx
       THEN /\ WorkerEnds("err", "channel", clone)
            /\ UNCHANGED << batch_chan, pushed >>
       ELSE /\ ~channel_full(batch_chan)
            /\ batch_chan' = channel_push(batch_chan, item)
            /\ pushed' = Append(pushed, item)
            /\ item' = 0
            /\ task' = "iter"
            /\ UNCHANGED << task_error, clone, batch_tx >>
  /\ UNCHANGED << attachments, conn, cpc, last, schema, produced, batch_rx,
                  stream, out, users, counters >>
  /\ UNCHANGED study

\* Lines 414-415: detach on the clone, then Ok(()).
WorkerDetach ==
  /\ task = "detach"
  /\ \E f \in 0 .. (attachments.n + 1) :
       LET r == conn_detach(ConnPart(clone), attachments, f) IN
         IF r.res = "ok"
           THEN WorkerEnds("ok", "none", r.conn)
           ELSE WorkerEnds("err", "detach", r.conn)
  /\ users' = UseIf(users, "clone", "worker", attachments.some)
  /\ UNCHANGED << attachments, conn, cpc, last, schema, produced, batch_chan,
                  batch_rx, pushed, stream, out, counters >>
  /\ UNCHANGED study

\* The closure panics: join_handle resolves to Err(JoinError).
WorkerPanic ==
  /\ task \in TaskRunning
  /\ WorkerEnds("panic", "none", clone)
  /\ UNCHANGED << attachments, conn, cpc, last, schema, produced, batch_chan,
                  batch_rx, pushed, stream, out, users, counters >>
  /\ UNCHANGED study

\* The runtime shuts down before the closure starts: Err(JoinError), cancelled.
WorkerCancelled ==
  /\ task = "queued"
  /\ WorkerEnds("cancelled", "none", clone)
  /\ UNCHANGED << attachments, conn, cpc, last, schema, produced, batch_chan,
                  batch_rx, pushed, stream, out, users, counters >>
  /\ UNCHANGED study

Worker ==
  \/ WorkerAttach
  \/ WorkerPrepare
  \/ WorkerStream
  \/ WorkerNext
  \/ blocking_channel_send
  \/ WorkerDetach
  \/ WorkerPanic
  \/ WorkerCancelled

\* ------------------------------------------- the output stream (418-436)
\* Lines 419-420: recv() yields the batch at the front of the channel.
StreamRecv ==
  /\ stream = "recv"
  /\ batch_chan # << >>
  /\ out' = Append(out, OkItem(channel_front(batch_chan)))
  /\ batch_chan' = channel_pop(batch_chan)
  /\ UNCHANGED << attachments, conn, cpc, last, schema, clone, task, task_error,
                  item, produced, batch_tx, batch_rx, pushed, stream, users,
                  counters >>
  /\ UNCHANGED study

\* Line 419: recv() returns None: the channel is empty and the Sender is gone.
StreamClosed ==
  /\ stream = "recv"
  /\ batch_chan = << >>
  /\ ~batch_tx
  /\ stream' = "join"
  /\ UNCHANGED << attachments, conn, cpc, last, schema, clone, task, task_error,
                  item, produced, batch_chan, batch_tx, batch_rx, pushed, out,
                  users, counters >>
  /\ UNCHANGED study

\* Mutant: a panicked or cancelled worker ends the stream silently.
join_items_task_error_only(t, e) ==
  IF t = "err" THEN << ErrItem(e) >> ELSE << >>

\* Mutant: an error the worker returned ends the stream silently.
join_items_join_error_only(t, e) ==
  IF t \in {"panic", "cancelled"} THEN << ErrItem("join") >> ELSE << >>

\* Lines 423-435: what the stream yields once join_handle resolved.
join_items(t, e) ==
  IF t = "err" THEN << ErrItem(e) >>
  ELSE IF t \in {"panic", "cancelled"} THEN << ErrItem("join") >>
  ELSE << >>

\* Lines 423-436: await the worker, yield its failure if any, end the stream.
StreamJoin ==
  /\ stream = "join"
  /\ task \in TaskEnded
  /\ out' = out \o join_items(task, task_error)
  /\ stream' = "end"
  /\ batch_rx' = FALSE
  /\ UNCHANGED << attachments, conn, cpc, last, schema, clone, task, task_error,
                  item, produced, batch_chan, batch_tx, pushed, users, counters >>
  /\ UNCHANGED study

\* Mutant: dropping the stream detaches the clone from the consumer's side.
StreamDrop_detaches_clone ==
  /\ stream \in {"recv", "join"}
  /\ stream' = "dropped"
  /\ batch_rx' = FALSE
  /\ batch_chan' = << >>
  /\ users' = Use(users, "clone", "consumer")
  /\ UNCHANGED << attachments, conn, cpc, last, schema, clone, task, task_error,
                  item, produced, batch_tx, pushed, out, counters >>
  /\ UNCHANGED study

\* The consumer drops the stream before its end: the Receiver and the
\* batches still queued are dropped, the join handle is detached.
StreamDrop ==
  /\ stream \in {"recv", "join"}
  /\ stream' = "dropped"
  /\ batch_rx' = FALSE
  /\ batch_chan' = << >>
  /\ UNCHANGED << attachments, conn, cpc, last, schema, clone, task, task_error,
                  item, produced, batch_tx, pushed, out, users, counters >>
  /\ UNCHANGED study

\* Mutant: a synchronous operation opens a session of its own.
SyncOp_clones(op) ==
  /\ cpc = "idle"
  /\ \E ok \in BOOLEAN :
       last' = [op |-> op, res |-> IF ok THEN "ok" ELSE "err"]
  /\ users' = Use(users, "orig", "caller")
  /\ clones' = clones + 1
  /\ UNCHANGED << attachments, conn, cpc, schema, session, calls, oks, workers >>
  /\ UNCHANGED study

\* ------------------------------- the facade's synchronous operations
\* tables, schemas, get_schema and execute: one or two engine calls on
\* self.conn, made by the caller, each of which may fail.
SyncOp(op) ==
  /\ cpc = "idle"
  /\ \E ok \in BOOLEAN :
       last' = [op |-> op, res |-> IF ok THEN "ok" ELSE "err"]
  /\ users' = Use(users, "orig", "caller")
  /\ UNCHANGED << attachments, conn, cpc, schema, session, counters >>
  /\ UNCHANGED study

tables == SyncOp("tables")

schemas == SyncOp("schemas")

\* Whether the engine resolves an unqualified table name on connection c:
\* tbl = -1 is a table of the primary catalog, tbl = j one that lives only
\* in auxiliary database j, found when alias j is attached and the search
\* path is the one that lists the aliases.
table_resolves(c, tbl) ==
  tbl < 0 \/ (tbl \in c.attached /\ c.search_path = "set")

\* Lines 344-362: get_schema prepares SELECT * FROM <table> LIMIT 0 on
\* self.conn as it finds it, runs it and reconciles the schema; it calls
\* neither attach nor detach.
get_schema ==
  /\ cpc = "idle"
  /\ \E tbl \in {-1} \cup AttIdx(attachments.n), ok \in BOOLEAN :
       last' = [op |-> "get_schema",
                res |-> IF ~table_resolves(conn, tbl) THEN "unresolved"
                        ELSE IF ok THEN "ok" ELSE "err"]
  /\ users' = Use(users, "orig", "caller")
  /\ UNCHANGED << attachments, conn, cpc, schema, session, counters >>
  /\ UNCHANGED study

execute == SyncOp("execute")

\* --------------------------------------------------------- specification
query_arrow ==
  \/ QueryArrowAttach
  \/ QueryArrowPrepare
  \/ QueryArrowProbe
  \/ QueryArrowDetach
  \/ QueryArrowClone
  \/ QueryArrowSpawn

Next ==
  \/ query_arrow
  \/ Worker
  \/ StreamRecv
  \/ StreamClosed
  \/ StreamJoin
  \/ StreamDrop
  \/ tables
  \/ schemas
  \/ get_schema
  \/ execute

Spec == Init /\ [][Next]_vars

\* The blocking pool runs a spawned closure, and every engine call returns.
FairSpec == Spec /\ WF_vars(Worker)

\* ------------------------------------------------------------ the claims
HasAttachments == attachments.some /\ attachments.n > 0

Returned(res) == cpc = "idle" /\ last = [op |-> "query_arrow", res |-> res]

ConnIsDefault == conn.attached = {} /\ conn.search_path = "default"

\* The batches among the elements of a stream, in order.
BatchIds(s) ==
  LET b == SelectSeq(s, LAMBDA x : x.tag = "batch")
  IN  [k \in 1 .. Len(b) |-> b[k].id]

IsAttachError(cause) == cause \in {"attach_missing", "attach_engine"}

\* C1: when query_arrow, called with a non-empty Attachment Set, returns an
\* error from a step after its attach (probe prepare, probe execution, detach,
\* clone), the auxiliary catalogs are detached on the caller's connection and
\* its search path is the default.
C1_BracketOnError ==
  (HasAttachments
     /\ \E res \in {"prepare_err", "probe_err", "detach_err", "clone_err"} :
          Returned(res))
    => ConnIsDefault

\* C2: once query_arrow has detached, and from then on while it clones, spawns
\* and after it returned the stream, no alias is attached on the caller's
\* connection and its search path is the default.
C2_DetachedBeforeHandOff ==
  (cpc \in {"detached", "cloned"} \/ Returned("ok")
     \/ clone.st # "none" \/ task # "none")
    => ConnIsDefault

C2_Witness ==
  /\ HasAttachments
  /\ Returned("ok")
  /\ task = "iter"
  /\ clone.attached = AttIdx(attachments.n)

\* C3: a stream polled to its end has yielded exactly the batches the worker
\* pushed into the channel, in the order pushed.
C3_BatchesInOrder == stream = "end" => BatchIds(out) = pushed

C3_Witness == stream = "end" /\ Len(pushed) >= 3 /\ task = "ok"

\* C4: a stream polled to its end, whose worker returned an error, panicked
\* or was cancelled, has yielded every pushed batch and then one error, its
\* last element; a stream whose worker returned Ok has yielded no error.
C4_TerminalError ==
  stream = "end" =>
    /\ task \in {"err", "panic", "cancelled"} =>
         /\ Len(out) = Len(pushed) + 1
         /\ \A k \in 1 .. Len(pushed) : out[k] = OkItem(pushed[k])
         /\ out[Len(out)].tag = "error"
    /\ task = "ok" => \A k \in 1 .. Len(out) : out[k].tag = "batch"

C4_Witness ==
  /\ stream = "end"
  /\ task = "panic"
  /\ Len(pushed) >= 2
  /\ out[Len(out)] = ErrItem("join")

\* C5: a clone, a worker or a batch exists only after the probe's schema was
\* taken; after query_arrow returned an attach or probe error there is no
\* clone, no worker, no stream and no batch.
C5_SchemaFirst ==
  /\ (clone.st # "none" \/ task # "none" \/ produced > 0 \/ stream # "none")
       => schema
  /\ (\E res \in {"attach_err", "prepare_err", "probe_err"} : Returned(res))
       => /\ clone.st = "none"
          /\ task = "none"
          /\ stream = "none"
          /\ produced = 0
          /\ pushed = << >>
          /\ ~schema

C5_Witness == Returned("probe_err") /\ calls = 2 /\ clones = 1

\* C6 as claimed: no attachment error is ever an element of the stream.
C6_NoAttachErrorInStream ==
  \A k \in 1 .. Len(out) : ~IsAttachError(out[k].cause)

\* C6, amended: an attachment or probe error of the caller's connection is
\* returned by query_arrow and no stream exists; the attach the worker repeats
\* on the clone can fail too, and a stream polled to its end then consists of
\* that attachment error alone, with no batch before it.
C6_AttachErrors ==
  /\ (\E res \in {"attach_err", "prepare_err", "probe_err"} : Returned(res))
       => stream = "none" /\ out = << >>
  /\ (stream = "end" /\ task = "err" /\ IsAttachError(task_error))
       => out = << ErrItem(task_error) >>
  /\ \A k \in 1 .. Len(out) :
       IsAttachError(out[k].cause) => k = 1 /\ pushed = << >>

C6_Witness ==
  /\ HasAttachments
  /\ stream = "end"
  /\ out = << ErrItem("attach_missing") >>

\* C7: the channel never holds more than 4 batches; while it holds 4 and the
\* Receiver is alive the worker's send cannot complete; and the batches
\* produced that the consumer has not received never number more than 5.
C7_Backpressure ==
  /\ Len(batch_chan) <= ChannelCapacity
  /\ (Len(batch_chan) = ChannelCapacity /\ task = "send" /\ batch_rx)
       => ~ENABLED blocking_channel_send
  /\ stream \in {"recv", "join", "end"}
       => produced - Len(BatchIds(out)) <= ChannelCapacity + 1

C7_Witness ==
  /\ Len(batch_chan) = ChannelCapacity
  /\ task = "send"
  /\ stream = "recv"
  /\ produced - Len(BatchIds(out)) = ChannelCapacity + 1
  /\ ~ENABLED blocking_channel_send

\* C8: once the stream is dropped no further batch is pushed, a send the
\* worker then makes returns the channel error, and the worker ends.
C8_Cancellation ==
  /\ [][(stream = "dropped" /\ stream' = "dropped") => pushed' = pushed]_vars
  /\ [][(stream = "dropped" /\ stream' = "dropped"
            /\ task = "send" /\ task' # "send")
          => \/ task' = "err" /\ task_error' = "channel"
             \/ task' = "panic"]_vars
  /\ (stream = "dropped") ~> (task \in TaskEnded)

C8_Witness ==
  /\ stream = "dropped"
  /\ task = "err"
  /\ task_error = "channel"
  /\ Len(pushed) = ChannelCapacity

\* C9: only the caller runs calls on the pooled connection and only the
\* worker runs calls on the clone.
C9_SingleOwner ==
  /\ users.orig \subseteq {"caller"}
  /\ users.clone \subseteq {"worker"}

C9_Witness ==
  /\ users.orig = {"caller"}
  /\ users.clone = {"worker"}
  /\ stream = "dropped"
  /\ task = "err"

\* C10: outside query_arrow the clones created and the workers spawned both
\* number the calls of query_arrow that returned a stream; inside it, at most
\* the clone of the call under way is ahead.
C10_OneClonePerStream ==
  /\ workers = oks
  /\ IF cpc = "cloned" THEN clones = oks + 1 ELSE clones = oks

C10_Witness ==
  /\ oks = 2
  /\ clones = 2
  /\ workers = 2
  /\ cpc = "idle"
  /\ last.op = "execute"

\* C15: on a connection configured with a non-empty Attachment Set,
\* get_schema of a table that lives only in an auxiliary catalog resolves the
\* table by its unqualified name (the catalogs being attached for the
\* statement).
C15_AuxTableResolves ==
  (HasAttachments /\ last.op = "get_schema") => last.res # "unresolved"

\* ----------------------------------- DuckDBAttachments::new (lines 73-102)
\* Strings are sequences of atoms; a path is named by a number.
TokenLen == 8   \* Alphanumeric.sample_string(&mut rand::rng(), 8)

Comma == ","

\* Some values of the random 8-character token.
Tokens == {[k \in 1 .. TokenLen |-> IF k = p THEN "7" ELSE "a"] : p \in 0 .. 1}

\* Some primary identifiers: a plain name, the empty string, and a name that
\* itself holds a comma.
Ids == {<< "main_db" >>, << >>, << "main", Comma, "db" >>}

\* Vec::join
RECURSIVE join(_, _)
join(parts, sep) ==
  IF parts = << >> THEN << >>
  ELSE IF Len(parts) = 1 THEN parts[1]
  ELSE parts[1] \o << sep >> \o join(Tail(parts), sep)

\* str::split: the segments between the separators (one segment, the empty
\* one, for the empty string).
RECURSIVE split_from(_, _, _)
split_from(str, sep, seg) ==
  IF str = << >> THEN << seg >>
  ELSE IF Head(str) = sep THEN << seg >> \o split_from(Tail(str), sep, << >>)
  ELSE split_from(Tail(str), sep, Append(seg, Head(str)))

split(str, sep) == split_from(str, sep, << >>)

\* Mutant: the alias leaves the token out.
get_attachment_name_no_token(random_id, index) ==
  << "attachment_", "_", ToString(index) >>

\* Mutant: the alias leaves the index out.
get_attachment_name_no_index(random_id, index) ==
  << "attachment_" >> \o random_id \o << "_" >>

\* Lines 168-171: format!("attachment_{random_id}_{index}")
get_attachment_name(random_id, index) ==
  << "attachment_" >> \o random_id \o << "_", ToString(index) >>

\* Mutant: the aliases of the search path are numbered from 1.
get_search_path_from_one(id, random_id, atts) ==
  join(<< id >> \o [k \in 1 .. Len(atts) |-> get_attachment_name(random_id, k)],
       Comma)

\* Mutant: the primary identifier is left out of the search path.
get_search_path_no_primary(id, random_id, atts) ==
  join([k \in 1 .. Len(atts) |-> get_attachment_name(random_id, k - 1)], Comma)

\* Lines 90-102: the primary identifier, then one alias per attachment in the
\* set's iteration order (atts is the set in that order), joined by commas.
get_search_path(id, random_id, atts) ==
  join(<< id >> \o [k \in 1 .. Len(atts) |-> get_attachment_name(random_id, k - 1)],
       Comma)

\* The orders in which a HashSet of these elements may iterate.
Orders(set) ==
  {o \in [1 .. Cardinality(set) -> set] :
     \A a, b \in 1 .. Cardinality(set) : a # b => o[a] # o[b]}

\* Mutant: the list is kept as given, duplicates included.
collect_keeps_duplicates(list) == {list}

\* Line 78: attachments.iter().cloned().collect() into a HashSet; the result
\* is the set of the list's elements, iterated in some order.
collect(list) == Orders({list[k] : k \in DOMAIN list})

\* Lines 76-85: DuckDBAttachments::new, given the token drawn and the order
\* in which the HashSet iterates.
new(id, random_id, atts) ==
  [attachments |-> atts,
   search_path |-> get_search_path(id, random_id, atts),
   random_id |-> random_id]

\* with_attachments(Some(Arc::new(m))) (lines 235-238)
with_attachments(m) ==
  [some |-> TRUE, n |-> Len(m.attachments), mgr |-> m]

\* The aliases a manager names in its ATTACH and DETACH statements
\* (lines 139 and 158).
aliases(m) ==
  {get_attachment_name(m.random_id, k - 1) : k \in 1 .. Len(m.attachments)}

\* The lists of auxiliary paths given to new: up to MaxAtt + 1 entries naming
\* up to MaxAtt paths, so that duplicates occur.
PathLists == UNION {[1 .. k -> 1 .. MaxAtt] : k \in 0 .. (MaxAtt + 1)}

NoManager == [attachments |-> << >>, search_path |-> << >>, random_id |-> << >>]

\* A study of the constructor: two managers are made, one after the other,
\* each from an identifier, a list of paths and the token drawn for it.
NewInit ==
  /\ attachments = [some |-> FALSE, n |-> 0]
  /\ Fresh
  /\ fn_in = [op |-> "none", id |-> << >>, list |-> << >>, prev |-> NoManager]
  /\ fn_out = NoManager

NewCall(nth) ==
  /\ \E id \in Ids, random_id \in Tokens, list \in PathLists :
       \E atts \in collect(list) :
         /\ fn_in' = [op |-> nth, id |-> id, list |-> list, prev |-> fn_out]
         /\ fn_out' = new(id, random_id, atts)
  /\ UNCHANGED << attachments, facade >>

NewFirst == fn_in.op = "none" /\ NewCall("new")

NewSecond == fn_in.op = "new" /\ NewCall("new2")

NewNext == NewFirst \/ NewSecond

NewSpec == NewInit /\ [][NewNext]_vars

Range(f) == {f[k] : k \in DOMAIN f}

HasComma(str) == Comma \in Range(str)

\* What C13 says of the manager made from identifier id and list `list`.
DedupAndSearchPath(id, list, m) ==
  LET distinct == Range(list)
      segs == split(m.search_path, Comma)
  IN  /\ Range(m.attachments) = distinct
      /\ Len(m.attachments) = Cardinality(distinct)
      /\ Len(segs) = 1 + Cardinality(distinct)
      /\ segs[1] = id
      /\ \A a, b \in 2 .. Len(segs) : a # b => segs[a] # segs[b]
      /\ \A a \in 2 .. Len(segs) : segs[a] \in aliases(m)
      /\ list = << >> => m.search_path = id

\* C13 as claimed: for every primary identifier and every list of paths the
\* set holds each distinct path once and the search path has 1 + (number of
\* distinct paths) comma-separated segments, the primary identifier first,
\* then pairwise distinct aliases; for the empty list it is the identifier.
C13_AnyIdentifier ==
  fn_in.op \in {"new", "new2"} => DedupAndSearchPath(fn_in.id, fn_in.list, fn_out)

\* C13, amended: the same, for every primary identifier that holds no comma.
C13_DedupAndSearchPath ==
  (fn_in.op \in {"new", "new2"} /\ ~HasComma(fn_in.id))
    => DedupAndSearchPath(fn_in.id, fn_in.list, fn_out)

C13_Witness ==
  /\ fn_in.op = "new"
  /\ fn_in.id = << "main_db" >>
  /\ Len(fn_in.list) = MaxAtt + 1
  /\ Len(fn_out.attachments) = MaxAtt
  /\ Len(split(fn_out.search_path, Comma)) = MaxAtt + 1

\* C16: the aliases of one manager are pairwise distinct, one per index, and
\* two managers whose tokens differ have no alias in common.
C16_AliasesUnique ==
  fn_in.op \in {"new", "new2"} =>
    /\ Cardinality(aliases(fn_out)) = Len(fn_out.attachments)
    /\ fn_in.prev.random_id # fn_out.random_id
         => aliases(fn_in.prev) \cap aliases(fn_out) = {}

C16_Witness ==
  /\ fn_in.op = "new2"
  /\ fn_in.prev.random_id \in Tokens \ {fn_out.random_id}
  /\ Len(fn_in.prev.attachments) = MaxAtt
  /\ Len(fn_out.attachments) = MaxAtt

\* ------------------------- attach and detach called on a connection
\* A study of DuckDBAttachments::attach and detach as the public methods
\* they are: a manager of n paths, a connection opened for it, and the two
\* methods called on that connection in any order, each with the files
\* present and the engine's answers as inputs.
AttInit ==
  /\ \E n \in 0 .. MaxAtt, random_id \in Tokens, id \in {<< "main_db" >>, << >>} :
       attachments = with_attachments(new(id, random_id, [k \in 1 .. n |-> k]))
  /\ Fresh
  /\ fn_in = [op |-> "none", before |-> DefaultConn, present |-> {}, f |-> 0,
              prev |-> [op |-> "none", res |-> "none"]]
  /\ fn_out = [conn |-> DefaultConn, res |-> "none", path |-> -1]

\* The call before this one, and how it ended.
PrevCall == [op |-> fn_in.op, res |-> fn_out.res]

AttachCall ==
  /\ \E present \in SUBSET AttIdx(attachments.n), f \in 0 .. (attachments.n + 1) :
       LET r == attach(conn, attachments.n, present, f) IN
         /\ conn' = r.conn
         /\ fn_in' = [op |-> "attach", before |-> conn, present |-> present,
                      f |-> f, prev |-> PrevCall]
         /\ fn_out' = r
  /\ UNCHANGED << attachments, cpc, last, schema, session, users, counters >>

DetachCall ==
  /\ \E f \in 0 .. (attachments.n + 1) :
       LET r == detach(conn, attachments.n, f) IN
         /\ conn' = r.conn
         /\ fn_in' = [op |-> "detach", before |-> conn, present |-> {},
                      f |-> f, prev |-> PrevCall]
         /\ fn_out' = r
  /\ UNCHANGED << attachments, cpc, last, schema, session, users, counters >>

AttNext == AttachCall \/ DetachCall

AttSpec == AttInit /\ [][AttNext]_vars

\* The engine answered no statement of the call with an error of its own.
EngineHealthy == fn_in.f = attachments.n + 1

AllFilesPresent == fn_in.present = AttIdx(attachments.n)

Min(set) == CHOOSE x \in set : \A y \in set : x <= y

\* The aliases attached on connection c, as the manager's statements name them.
attached_aliases(c, m) == {get_attachment_name(m.random_id, i) : i \in c.attached}

\* C11: with the files present and the engine healthy, an attach that follows
\* a successful attach succeeds and leaves the connection as it was; a detach
\* that follows a successful detach, or is the first call on the connection,
\* succeeds and leaves the connection as it was.
C11_Idempotent ==
  /\ (fn_in.op = "attach" /\ fn_in.prev = [op |-> "attach", res |-> "ok"]
        /\ AllFilesPresent /\ EngineHealthy)
       => fn_out.res = "ok" /\ conn = fn_in.before
  /\ (fn_in.op = "detach" /\ EngineHealthy
        /\ (fn_in.prev = [op |-> "detach", res |-> "ok"] \/ fn_in.prev.op = "none"))
       => fn_out.res = "ok" /\ conn = fn_in.before

\* C12: after a successful attach the aliases attached are those the search
\* path lists after the primary identifier, attachment_<token>_0 to
\* attachment_<token>_(n-1), and the search path is the precomputed one;
\* after a successful detach no alias is attached and the search path is the
\* default.
C12_RoundTrip ==
  LET m == attachments.mgr
      listed == Tail(split(m.search_path, Comma))
  IN  /\ (fn_in.op = "attach" /\ fn_out.res = "ok")
           => /\ attached_aliases(conn, m) = Range(listed)
              /\ listed = [k \in 1 .. attachments.n |->
                             get_attachment_name(m.random_id, k - 1)]
              /\ conn.search_path = "set"
      /\ (fn_in.op = "detach" /\ fn_out.res = "ok")
           => conn.attached = {} /\ conn.search_path = "default"

C12_Witness ==
  /\ attachments.n = MaxAtt
  /\ fn_in.op = "detach"
  /\ fn_out.res = "ok"
  /\ fn_in.prev = [op |-> "attach", res |-> "ok"]
  /\ fn_in.before.attached = AttIdx(MaxAtt)

\* C14: when the first missing file is that of path k and the statements
\* before it succeed, attach returns the missing-file error of path k, has
\* attached the aliases before k and none from k on, and has left the search
\* path alone; attach changes the search path only when it returns Ok, every
\* alias attached.
C14_FailFast ==
  LET missing == AttIdx(attachments.n) \ fn_in.present IN
    fn_in.op = "attach" =>
      /\ (missing # {} /\ fn_in.f \notin 0 .. (Min(missing) - 1))
           => /\ fn_out.res = "missing"
              /\ fn_out.path = Min(missing)
              /\ conn.attached = fn_in.before.attached \cup AttIdx(Min(missing))
              /\ conn.search_path = fn_in.before.search_path
      /\ fn_out.res # "ok" => conn.search_path = fn_in.before.search_path
      /\ fn_out.res = "ok"
           => conn.search_path = "set" /\ AttIdx(attachments.n) \subseteq conn.attached

C14_Witness ==
  /\ attachments.n = MaxAtt
  /\ fn_in.op = "attach"
  /\ fn_in.before = DefaultConn
  /\ fn_out.res = "missing"
  /\ fn_out.path = MaxAtt - 1
  /\ conn.attached = AttIdx(MaxAtt - 1)

\* ------------------------------------------ the supportability of types
\* A data type is a tree: a kind and the types below it (the element of a
\* list kind, the members of a struct, none for a leaf).
MaxDepth == 3

Primitives == {"Int64", "Float64"}

Leaves == {"Int64", "Utf8", "Binary", "Utf8View", "BinaryView", "Boolean", "LargeUtf8"}

ListKinds == {"List", "FixedSizeList", "LargeList"}

Leaf(kind) == [kind |-> kind, children |-> << >>]

ListOf(kind, element) == [kind |-> kind, children |-> << element >>]

StructOf(members) == [kind |-> "Struct", children |-> members]

Field(name, data_type, duckdb_ok) ==
  [name |-> name, data_type |-> data_type, duckdb_ok |-> duckdb_ok]

is_primitive(dt) == dt.kind \in Primitives

\* Mutant: a struct is supported whatever its members are.
RECURSIVE is_data_type_supported_shallow(_)
is_data_type_supported_shallow(data_type) ==
  IF data_type.kind \in ListKinds
    THEN LET dt == data_type.children[1] IN
           \/ is_primitive(dt)
           \/ dt.kind \in {"Utf8", "Binary", "Utf8View", "BinaryView", "Boolean"}
  ELSE TRUE

\* Mutant: a list of booleans is not supported.
RECURSIVE is_data_type_supported_no_bool(_)
is_data_type_supported_no_bool(data_type) ==
  IF data_type.kind \in ListKinds
    THEN LET dt == data_type.children[1] IN
           \/ is_primitive(dt)
           \/ dt.kind \in {"Utf8", "Binary", "Utf8View", "BinaryView"}
  ELSE IF data_type.kind = "Struct"
    THEN \A k \in DOMAIN data_type.children :
           is_data_type_supported_no_bool(data_type.children[k])
  ELSE TRUE

RECURSIVE is_data_type_supported(_)
is_data_type_supported(data_type) ==
  IF data_type.kind \in ListKinds
    THEN LET dt == data_type.children[1] IN
           \/ is_primitive(dt)
           \/ dt.kind \in {"Utf8", "Binary", "Utf8View", "BinaryView", "Boolean"}
  ELSE IF data_type.kind = "Struct"
    THEN \A k \in DOMAIN data_type.children :
           is_data_type_supported(data_type.children[k])
  ELSE TRUE

\* Whether the engine's type mapper has a type for the field's: the mapper
\* is the engine binding's, its answer an input carried by the field.
to_duckdb_type_id_is_ok(field) == field.duckdb_ok

\* Mutant: the mapper is not asked.
is_field_supported_rule_only(field) == is_data_type_supported(field.data_type)

is_field_supported(field) ==
  is_data_type_supported(field.data_type) /\ to_duckdb_type_id_is_ok(field)

\* The text of a data type, as put into an error.
RECURSIVE to_string(_)
to_string(data_type) ==
  IF data_type.children = << >> THEN << data_type.kind >>
  ELSE << data_type.kind, "(" >>
         \o join([k \in DOMAIN data_type.children |->
                    to_string(data_type.children[k])], Comma)
         \o << ")" >>

\* Mutant: the two texts of the error change places.
unsupported_type_error_swapped(data_type, field_name) ==
  [kind |-> "UnsupportedDataType",
   data_type |-> << field_name >>,
   field_name |-> to_string(data_type)]

unsupported_type_error(data_type, field_name) ==
  [kind |-> "UnsupportedDataType",
   data_type |-> to_string(data_type),
   field_name |-> << field_name >>]

\* Types are built from a leaf by wrapping: into a list kind, or into a
\* struct, alone or beside a sibling that is supported or is not.
ListOfStruct == ListOf("List", StructOf(<< Leaf("Int64") >>))

Siblings == {Leaf("Int64"), ListOfStruct}

NoAnswer == [data_type_supported |-> FALSE, field_supported |-> FALSE]

Answer(field) ==
  [data_type_supported |-> is_data_type_supported(field.data_type),
   field_supported |-> is_field_supported(field)]

TypeInit ==
  /\ attachments = [some |-> FALSE, n |-> 0]
  /\ Fresh
  /\ fn_in = [op |-> "none", field |-> Field("col", Leaf("Int64"), TRUE), depth |-> 0]
  /\ fn_out = NoAnswer

Ask(op, data_type, depth) ==
  /\ \E duckdb_ok \in BOOLEAN :
       LET field == Field("col", data_type, duckdb_ok) IN
         /\ fn_in' = [op |-> op, field |-> field, depth |-> depth]
         /\ fn_out' = Answer(field)
  /\ UNCHANGED << attachments, facade >>

AskLeaf ==
  /\ fn_in.op = "none"
  /\ \E kind \in Leaves : Ask("leaf", Leaf(kind), 0)

AskList ==
  /\ fn_in.op # "none"
  /\ fn_in.depth < MaxDepth
  /\ \E kind \in ListKinds :
       Ask("list", ListOf(kind, fn_in.field.data_type), fn_in.depth + 1)

AskStruct ==
  /\ fn_in.op # "none"
  /\ fn_in.depth < MaxDepth
  /\ \E members \in {<< fn_in.field.data_type >>}
                      \cup {<< fn_in.field.data_type, s >> : s \in Siblings}
                      \cup {<< s, fn_in.field.data_type >> : s \in Siblings} :
       Ask("struct", StructOf(members), fn_in.depth + 1)

TypeNext == AskLeaf \/ AskList \/ AskStruct

TypeSpec == TypeInit /\ [][TypeNext]_vars

\* The types reached from t through struct members only, t included.
RECURSIVE StructMembers(_)
StructMembers(t) ==
  IF t.kind = "Struct"
    THEN {t} \cup UNION {StructMembers(t.children[k]) : k \in DOMAIN t.children}
  ELSE {t}

\* A list kind whose element is neither a primitive nor one of the five.
BadList(t) ==
  /\ t.kind \in ListKinds
  /\ t.children[1].kind \notin
       Primitives \cup {"Utf8", "Binary", "Utf8View", "BinaryView", "Boolean"}

\* C19: a list kind is supported iff its element is a primitive or one of
\* text, binary, text-view, binary-view, boolean (a list of struct or of
\* list is not); a struct is supported iff no type reached through struct
\* members, at any depth, is an unsupported list; any other type is
\* supported; a field is supported iff its type is and the mapper accepts it.
C19_SupportRule ==
  LET t == fn_in.field.data_type IN
    fn_in.op # "none" =>
      /\ t.kind \in ListKinds => (fn_out.data_type_supported <=> ~BadList(t))
      /\ (t.kind \in ListKinds /\ t.children[1].kind \in ListKinds \cup {"Struct"})
           => ~fn_out.data_type_supported
      /\ t.kind = "Struct"
           => (fn_out.data_type_supported <=> \A m \in StructMembers(t) : ~BadList(m))
      /\ t.kind \notin ListKinds \cup {"Struct"} => fn_out.data_type_supported
      /\ fn_out.field_supported
           <=> ((\A m \in StructMembers(t) : ~BadList(m)) /\ fn_in.field.duckdb_ok)

\* A struct of the deepest nesting with a list of lists among the types
\* below it: not supported, though the mapper accepts it.
C19_Witness ==
  /\ fn_in.op = "struct"
  /\ fn_in.depth = MaxDepth
  /\ fn_in.field.duckdb_ok
  /\ ~fn_out.field_supported
  /\ \E m \in StructMembers(fn_in.field.data_type) :
       m.kind \in ListKinds /\ m.children[1].kind \in ListKinds

\* ------------------------------------------- the schema reconciliation
\* handle_unsupported_schema is a provided method of the SchemaValidator
\* trait, whose definition is outside this file; it is modelled from its
\* specification: fields in order, the supported ones kept, and for an
\* unsupported one the policy decides (fail: the error of the first;
\* warn: a warning and the field dropped; ignore: the field dropped).
MaxFields == 3

UnsupportedTypeAction == {"Error", "Warn", "Ignore"}

Unsupported(fields) == {k \in DOMAIN fields : ~is_field_supported(fields[k])}

Reverse(seq) == [k \in 1 .. Len(seq) |-> seq[Len(seq) + 1 - k]]

NoError == [kind |-> "none", data_type |-> << >>, field_name |-> << >>]

\* Mutant: the schema is rebuilt from the last field to the first.
handle_unsupported_schema_reversed(fields, unsupported_type_action) ==
  IF unsupported_type_action = "Error" /\ Unsupported(fields) # {}
    THEN LET field == fields[Min(Unsupported(fields))] IN
           [res |-> "err", schema |-> << >>, warned |-> << >>,
            error |-> unsupported_type_error(field.data_type, field.name)]
  ELSE [res |-> "ok",
        schema |-> Reverse(SelectSeq(fields, is_field_supported)),
        warned |-> << >>,
        error |-> NoError]

handle_unsupported_schema(fields, unsupported_type_action) ==
  IF unsupported_type_action = "Error" /\ Unsupported(fields) # {}
    THEN LET field == fields[Min(Unsupported(fields))] IN
           [res |-> "err", schema |-> << >>, warned |-> << >>,
            error |-> unsupported_type_error(field.data_type, field.name)]
  ELSE [res |-> "ok",
        schema |-> SelectSeq(fields, is_field_supported),
        warned |-> IF unsupported_type_action = "Warn"
                     THEN LET bad(field) == ~is_field_supported(field) IN
                            [k \in 1 .. Len(SelectSeq(fields, bad)) |->
                               SelectSeq(fields, bad)[k].name]
                     ELSE << >>,
        error |-> NoError]

\* The types of the columns a schema under study is made of: the usual
\* ones, a struct, and the two that the rule rejects.
ColumnTypes ==
  {Leaf("Utf8"), Leaf("Int64"), StructOf(<< Leaf("Int64") >>),
   ListOfStruct, StructOf(<< ListOfStruct >>)}

NoOutcome == [res |-> "none", schema |-> << >>, warned |-> << >>, error |-> NoError]

SchemaInit ==
  /\ attachments = [some |-> FALSE, n |-> 0]
  /\ Fresh
  /\ fn_in = [op |-> "build", fields |-> << >>, action |-> "Error"]
  /\ fn_out = NoOutcome

\* One more column, named after its position.
PushField ==
  /\ fn_in.op = "build"
  /\ Len(fn_in.fields) < MaxFields
  /\ \E data_type \in ColumnTypes, duckdb_ok \in BOOLEAN :
       fn_in' = [fn_in EXCEPT !.fields =
                   Append(@, Field(ToString(Len(@)), data_type, duckdb_ok))]
  /\ UNCHANGED << attachments, facade, fn_out >>

HandleCall ==
  /\ fn_in.op = "build"
  /\ \E unsupported_type_action \in UnsupportedTypeAction :
       /\ fn_in' = [fn_in EXCEPT !.op = "handle", !.action = unsupported_type_action]
       /\ fn_out' = handle_unsupported_schema(fn_in.fields, unsupported_type_action)
  /\ UNCHANGED << attachments, facade >>

SchemaNext == PushField \/ HandleCall

SchemaSpec == SchemaInit /\ [][SchemaNext]_vars

\* The supportability of a field said without the code's function: no bad
\* list among the types reached through struct members, and the mapper's
\* acceptance.
FieldOk(field) ==
  /\ \A m \in StructMembers(field.data_type) : ~BadList(m)
  /\ field.duckdb_ok

\* The fields of seq from position k on that are supported, in order.
RECURSIVE Kept(_, _)
Kept(seq, k) ==
  IF k > Len(seq) THEN << >>
  ELSE (IF FieldOk(seq[k]) THEN << seq[k] >> ELSE << >>) \o Kept(seq, k + 1)

\* C17: for a schema whose every field is supported, the call returns Ok
\* with a schema equal to the input, fields and order, under each of the
\* three policies.
C17_SupportedUnchanged ==
  (fn_in.op = "handle" /\ \A k \in DOMAIN fn_in.fields : FieldOk(fn_in.fields[k]))
    => fn_out.res = "ok" /\ fn_out.schema = fn_in.fields

C17_Witness ==
  /\ fn_in.op = "handle"
  /\ fn_in.action = "Error"
  /\ Len(fn_in.fields) = MaxFields
  /\ \A k \in DOMAIN fn_in.fields : FieldOk(fn_in.fields[k])
  /\ \E k \in DOMAIN fn_in.fields : fn_in.fields[k].data_type.kind = "Struct"
  /\ fn_out.res = "ok"

\* C18: for a schema with an unsupported field, warn and ignore return Ok
\* with the supported fields in their original relative order, the same
\* schema for both; fail returns the error that names the first unsupported
\* field and the text of its type, and no schema.
C18_UnsupportedByPolicy ==
  LET fields == fn_in.fields
      bad == {k \in DOMAIN fields : ~FieldOk(fields[k])}
  IN  (fn_in.op = "handle" /\ bad # {}) =>
        /\ fn_in.action \in {"Warn", "Ignore"}
             => /\ fn_out.res = "ok"
                /\ fn_out.schema = Kept(fields, 1)
                /\ fn_out.schema = handle_unsupported_schema(fields, "Warn").schema
                /\ fn_out.schema = handle_unsupported_schema(fields, "Ignore").schema
        /\ fn_in.action = "Error"
             => /\ fn_out.res = "err"
                /\ fn_out.schema = << >>
                /\ fn_out.error.kind = "UnsupportedDataType"
                /\ fn_out.error.field_name = << fields[Min(bad)].name >>
                /\ fn_out.error.data_type = to_string(fields[Min(bad)].data_type)

\* Two unsupported fields around a supported one, under the fail policy.
C18_Witness ==
  /\ fn_in.op = "handle"
  /\ fn_in.action = "Error"
  /\ Len(fn_in.fields) = MaxFields
  /\ ~FieldOk(fn_in.fields[1])
  /\ FieldOk(fn_in.fields[2])
  /\ ~FieldOk(fn_in.fields[MaxFields])
  /\ fn_in.fields[1].data_type # fn_in.fields[MaxFields].data_type
  /\ fn_out.res = "err"

\* The same schema shape under the warn policy: the survivors in order.
C18_WitnessDrop ==
  /\ fn_in.op = "handle"
  /\ fn_in.action = "Warn"
  /\ Len(fn_in.fields) = MaxFields
  /\ ~FieldOk(fn_in.fields[2])
  /\ Len(fn_out.schema) = MaxFields - 1

\* ---------------------------------------- the table-function classifier
\* A bare reference is a string over a small alphabet: a word character, the
\* two parentheses, the comma and the single quote. The tokenizer and the
\* parser are the SQL library's, modelled on this alphabet by what they do.
MaxLen == 6

Chars == {"t", "(", ")", ",", "'"}

\* The position of the quote that closes the literal whose body starts at
\* i, a doubled quote being a quote inside the literal; 0 when none closes it.
RECURSIVE string_end(_, _)
string_end(str, i) ==
  IF i > Len(str) THEN 0
  ELSE IF str[i] = "'"
    THEN IF i + 1 <= Len(str) /\ str[i + 1] = "'"
           THEN string_end(str, i + 2)
           ELSE i
  ELSE string_end(str, i + 1)

\* The last position of the word that starts at i.
RECURSIVE word_end(_, _)
word_end(str, i) ==
  IF i + 1 <= Len(str) /\ str[i + 1] = "t" THEN word_end(str, i + 1) ELSE i

TokenizerError == [ok |-> FALSE, tokens |-> << >>]

RECURSIVE tokenize_from(_, _)
tokenize_from(str, i) ==
  IF i > Len(str) THEN [ok |-> TRUE, tokens |-> << >>]
  ELSE LET last_of == IF str[i] = "t" THEN word_end(str, i)
                      ELSE IF str[i] = "'" THEN string_end(str, i + 1)
                      ELSE i
           token == IF str[i] = "t" THEN "Word"
                    ELSE IF str[i] = "'" THEN "SingleQuotedString"
                    ELSE IF str[i] = "(" THEN "LParen"
                    ELSE IF str[i] = ")" THEN "RParen"
                    ELSE "Comma"
       IN  IF last_of = 0 THEN TokenizerError
           ELSE LET rest == tokenize_from(str, last_of + 1) IN
                  IF rest.ok
                    THEN [ok |-> TRUE, tokens |-> << token >> \o rest.tokens]
                    ELSE TokenizerError

tokenize(str) == tokenize_from(str, 1)

\* The parser's steps take the tokens and a position and give the position
\* after what they consumed, or 0 for a parser error.
At(tokens, i, kinds) == i <= Len(tokens) /\ tokens[i] \in kinds

Idents == {"Word", "SingleQuotedString"}

RECURSIVE parse_expr(_, _)
RECURSIVE parse_comma_separated(_, _)
RECURSIVE parse_optional_args(_, _)

\* An expression: an identifier, a function call, a literal, or a
\* parenthesized expression or tuple.
parse_expr(tokens, i) ==
  IF At(tokens, i, {"Word"})
    THEN IF At(tokens, i + 1, {"LParen"})
           THEN parse_optional_args(tokens, i + 2)
           ELSE i + 1
  ELSE IF At(tokens, i, {"SingleQuotedString"}) THEN i + 1
  ELSE IF At(tokens, i, {"LParen"})
    THEN LET j == parse_comma_separated(tokens, i + 1) IN
           IF j # 0 /\ At(tokens, j, {"RParen"}) THEN j + 1 ELSE 0
  ELSE 0

parse_comma_separated(tokens, i) ==
  LET j == parse_expr(tokens, i) IN
    IF j = 0 THEN 0
    ELSE IF At(tokens, j, {"Comma"}) THEN parse_comma_separated(tokens, j + 1)
    ELSE j

\* The arguments after an opening parenthesis, to the closing one.
parse_optional_args(tokens, i) ==
  IF At(tokens, i, {"RParen"}) THEN i + 1
  ELSE LET j == parse_comma_separated(tokens, i) IN
         IF j # 0 /\ At(tokens, j, {"RParen"}) THEN j + 1 ELSE 0

\* The column names of an alias: identifiers between commas.
RECURSIVE parse_identifiers(_, _)
parse_identifiers(tokens, i) ==
  IF ~At(tokens, i, Idents) THEN 0
  ELSE IF At(tokens, i + 1, {"Comma"}) THEN parse_identifiers(tokens, i + 2)
  ELSE i + 1

\* An alias after the table: an identifier, and its columns in parentheses
\* when a parenthesis follows.
parse_optional_table_alias(tokens, i) ==
  IF ~At(tokens, i, Idents) THEN i
  ELSE IF At(tokens, i + 1, {"LParen"})
    THEN LET j == parse_identifiers(tokens, i + 2) IN
           IF j # 0 /\ At(tokens, j, {"RParen"}) THEN j + 1 ELSE 0
  ELSE i + 1

ParserError == [ok |-> FALSE, variant |-> "none", args |-> "none"]

\* One table factor from the front of the tokens; what follows it is not
\* looked at. A factor that opens with a parenthesis is a subquery or a
\* join, neither of which these tokens can spell.
parse_table_factor(tokens) ==
  IF ~At(tokens, 1, Idents) THEN ParserError
  ELSE LET with_args == At(tokens, 2, {"LParen"})
           after_args == IF with_args THEN parse_optional_args(tokens, 3) ELSE 2
           after_alias == IF after_args = 0 THEN 0
                          ELSE parse_optional_table_alias(tokens, after_args)
       IN  IF after_alias = 0 THEN ParserError
           ELSE [ok |-> TRUE, variant |-> "Table",
                 args |-> IF ~with_args THEN "none"
                          ELSE IF At(tokens, 3, {"RParen"}) THEN "empty"
                          ELSE "list"]

TableReference(kind, table) == [kind |-> kind, table |-> table]

\* Mutant: any reference that parses is a table function.
is_table_function_any_parse(table_reference) ==
  IF table_reference.kind \in {"Full", "Partial"} THEN FALSE
  ELSE LET tokens == tokenize(table_reference.table) IN
         IF ~tokens.ok THEN FALSE
         ELSE parse_table_factor(tokens.tokens).ok

\* Mutant: a qualified reference is classified by its table part.
is_table_function_any_kind(table_reference) ==
  LET tokens == tokenize(table_reference.table) IN
    IF ~tokens.ok THEN FALSE
    ELSE LET tf == parse_table_factor(tokens.tokens) IN
           IF ~tf.ok THEN FALSE
           ELSE IF tf.variant # "Table" THEN FALSE
           ELSE tf.args # "none"

is_table_function(table_reference) ==
  IF table_reference.kind \in {"Full", "Partial"} THEN FALSE
  ELSE LET tokens == tokenize(table_reference.table) IN
         IF ~tokens.ok THEN FALSE
         ELSE LET tf == parse_table_factor(tokens.tokens) IN
                IF ~tf.ok THEN FALSE
                ELSE IF tf.variant # "Table" THEN FALSE
                ELSE tf.args # "none"

RefInit ==
  /\ attachments = [some |-> FALSE, n |-> 0]
  /\ Fresh
  /\ fn_in = [op |-> "build", table_reference |-> TableReference("Bare", << >>)]
  /\ fn_out = FALSE

\* One more character of the reference's table part.
PushChar ==
  /\ fn_in.op = "build"
  /\ Len(fn_in.table_reference.table) < MaxLen
  /\ \E c \in Chars :
       fn_in' = [fn_in EXCEPT !.table_reference.table = Append(@, c)]
  /\ UNCHANGED << attachments, facade, fn_out >>

Classify ==
  /\ fn_in.op = "build"
  /\ \E kind \in {"Bare", "Partial", "Full"} :
       LET table_reference == TableReference(kind, fn_in.table_reference.table) IN
         /\ fn_in' = [op |-> "classify", table_reference |-> table_reference]
         /\ fn_out' = is_table_function(table_reference)
  /\ UNCHANGED << attachments, facade >>

RefNext == PushChar \/ Classify

RefSpec == RefInit /\ [][RefNext]_vars

\* The references of the unit test, on the alphabet: table_name,
\* table_name(), read_csv_auto('f.csv') and table_name(arg1,arg2).
PlainName == << "t" >>

EmptyCall == << "t", "(", ")" >>

StringCall == << "t", "(", "'", "t", "'", ")" >>

TwoArgCall == << "t", "(", "t", ",", "t", ")" >>

\* A name, a word or a quoted one, then an opening parenthesis, then
\* somewhere a closing one.
CallShape(str) ==
  /\ str # << >>
  /\ str[1] \in {"t", "'"}
  /\ \E i, j \in DOMAIN str : 1 < i /\ i < j /\ str[i] = "(" /\ str[j] = ")"

\* C20: every classification returns a Boolean; it is false for a qualified
\* reference, false for a bare one that does not tokenize or does not parse,
\* and for a bare one that parses it is true iff the table factor carries an
\* argument list, an empty one included; table_name is not a table function,
\* table_name() and read_csv_auto('f.csv') are.
C20_Classifier ==
  LET ref == fn_in.table_reference
      tokens == tokenize(ref.table)
      tf == parse_table_factor(tokens.tokens)
  IN  fn_in.op = "classify" =>
        /\ fn_out \in BOOLEAN
        /\ ref.kind # "Bare" => ~fn_out
        /\ (ref.kind = "Bare" /\ (~tokens.ok \/ ~tf.ok)) => ~fn_out
        /\ (ref.kind = "Bare" /\ tokens.ok /\ tf.ok)
             => (fn_out <=> tf.args \in {"empty", "list"})
        /\ fn_out => CallShape(ref.table)
        /\ (ref.kind = "Bare" /\ ref.table = PlainName) => ~fn_out
        /\ (ref.kind = "Bare" /\ ref.table \in {EmptyCall, StringCall, TwoArgCall})
             => fn_out

C20_Witness ==
  /\ fn_in.op = "classify"
  /\ fn_in.table_reference = TableReference("Bare", StringCall)
  /\ fn_out

\* The failures that are answered with false: a literal left open, and an
\* argument list left open.
C20_WitnessFailures ==
  /\ fn_in.op = "classify"
  /\ fn_in.table_reference.kind = "Bare"
  /\ \/ fn_in.table_reference.table = << "t", "(", "'", "t", ")" >>
     \/ fn_in.table_reference.table = << "t", "(", "t", "," >>
  /\ ~fn_out

\* ------------------------------------- the worker's steps on the clone
\* The clone carries what attach on it set up: every alias and the search
\* path when there is an Attachment Set, nothing otherwise.
CloneAttached ==
  IF attachments.some
    THEN clone.attached = AttIdx(attachments.n) /\ clone.search_path = "set"
    ELSE clone.attached = {} /\ clone.search_path = "default"

\* The errors of the steps before the detach.
EarlyErrors == {"attach_missing", "attach_engine", "prepare", "stream", "channel"}

\* A step of the session under way, not the start of the next one.
SameSession == calls' = calls

\* A step that takes an alias off the clone or resets its search path.
DetachesClone ==
  \/ ~(clone.attached \subseteq clone'.attached)
  \/ clone.search_path = "set" /\ clone'.search_path = "default"

\* C21: from its attach to its detach the worker runs on a clone that has
\* every alias attached and the search path set; a batch is pushed only
\* then; only the detach step, taken when every batch produced was pushed,
\* takes an alias off the clone or resets its search path, and no batch is
\* pushed after it; a worker that ends with the error of its attach,
\* prepare, stream_arrow or send has taken nothing off the clone; and a
\* worker that has ended has dropped its clone, which stays dropped and was
\* used by the worker alone.
C21_WorkerStepOrder ==
  /\ [](/\ task \in TaskRunning => CloneAttached /\ clone.st = "live"
        /\ (pushed # << >> /\ task \in TaskRunning) => CloneAttached
        /\ pushed # << >>
             => task \in TaskRunning \cup TaskEnded /\ ~IsAttachError(task_error)
        /\ task \in TaskEnded => clone.st = "dropped"
        /\ users.clone \subseteq {"worker"})
  /\ [][(SameSession /\ DetachesClone)
          => /\ task = "detach"
             /\ Len(pushed) = produced
             /\ item = 0]_vars
  /\ [][(SameSession /\ task \in {"detach"} \cup TaskEnded) => pushed' = pushed]_vars
  /\ [][(SameSession /\ task' = "err" /\ task # "err" /\ task_error' \in EarlyErrors)
          => ~DetachesClone /\ task # "detach"]_vars
  /\ [][(SameSession /\ clone.st = "dropped") => clone' = clone]_vars

\* The send failed after batches went through: the worker has ended, its
\* clone is dropped with every alias still attached.
C21_Witness ==
  /\ HasAttachments
  /\ task = "err"
  /\ task_error = "channel"
  /\ pushed # << >>
  /\ clone = [st |-> "dropped", attached |-> AttIdx(attachments.n),
              search_path |-> "set"]

\* The worker went through: its detach came after the last batch.
C21_WitnessDetached ==
  /\ HasAttachments
  /\ task = "ok"
  /\ Len(pushed) = MaxBatches
  /\ clone = [st |-> "dropped", attached |-> {}, search_path |-> "default"]

\* ------------------------------------------------ the end of a stream
\* The worker's steps that are calls which return: the blocking pool runs
\* the closure, every engine call returns, and a send returns once there is
\* room in the channel or the Receiver is gone.
WorkerProgress ==
  \/ WorkerAttach
  \/ WorkerPrepare
  \/ WorkerStream
  \/ WorkerNext
  \/ blocking_channel_send
  \/ WorkerDetach

\* The consumer's polls of a stream it holds.
Poll == StreamRecv \/ StreamClosed \/ StreamJoin

\* The worker makes progress and the consumer keeps polling.
PollSpec == Spec /\ WF_vars(WorkerProgress) /\ WF_vars(Poll)

\* C22: the Sender is alive while the worker is queued or running and gone
\* once it has ended; a consumer that has seen the channel closed finds the
\* worker ended, the channel empty and its wait for the worker ready to
\* complete; and a stream being received from eventually ends (or is
\* dropped by its consumer) and its worker eventually ends.
C22_StreamTerminates ==
  /\ [](/\ task \in {"queued"} \cup TaskRunning => batch_tx
        /\ task \in TaskEnded => ~batch_tx
        /\ stream \in {"join", "end"}
             => ~batch_tx /\ task \in TaskEnded /\ batch_chan = << >>
        /\ stream = "join" => ENABLED StreamJoin)
  /\ (stream = "recv") ~> (stream \in {"end", "dropped"})
  /\ (stream = "recv") ~> (task \in TaskEnded)

\* The consumer has received every batch of the longest result and waits
\* for the worker, which has ended.
C22_Witness ==
  /\ stream = "join"
  /\ Len(out) = MaxBatches
  /\ task = "ok"
  /\ ENABLED StreamJoin

\* ------------------------------------------ two streams under way at once
\* query_arrow returns its stream while the worker still runs, so a second
\* call can begin while the first stream is being read.  try_clone opens a
\* connection to the same database instance: the instance holds the attached
\* catalogs, which is why the aliases carry a token and ATTACH is issued IF
\* NOT EXISTS, and every connection holds its own search path.  With one
\* session at a time, recording per connection what its statements attached
\* gives each statement the answer the instance gives; with two sessions it
\* does not, and the instance's catalog is modelled itself:
\*   fn_in.catalog      the aliases attached in the database instance
\*   fn_in.conn_path    the search path of self.conn
\*   fn_in.pc[s]        where call s of query_arrow, then its worker, is
\*   fn_in.clone_path[s] the search path of the clone of call s
\*   fn_out[s]          how call s or its worker ended
Sessions == {1, 2}

\* A connection as the engine's statements see it.
View(catalog, search_path) == [attached |-> catalog, search_path |-> search_path]

ConcInit ==
  /\ attachments \in {[some |-> TRUE, n |-> k] : k \in 1 .. MaxAtt}
  /\ Fresh
  /\ fn_in = [catalog |-> {}, conn_path |-> "default",
              pc |-> [s \in Sessions |-> "new"],
              clone_path |-> [s \in Sessions |-> "default"]]
  /\ fn_out = [s \in Sessions |-> "none"]

\* The caller is inside no call of query_arrow.
CallerFree == \A s \in Sessions : fn_in.pc[s] # "probing"

\* Lines 370-372 of call s: attach on self.conn.
ConcCallerAttach(s) ==
  /\ fn_in.pc[s] = "new"
  /\ CallerFree
  /\ \A t \in Sessions : t < s => fn_in.pc[t] # "new"
  /\ \E present \in SUBSET AttIdx(attachments.n), f \in 0 .. (attachments.n + 1) :
       LET r == conn_attach(View(fn_in.catalog, fn_in.conn_path), attachments,
                            present, f)
       IN  /\ fn_in' = [fn_in EXCEPT !.catalog = r.conn.attached,
                                     !.conn_path = r.conn.search_path,
                                     !.pc[s] = IF r.res = "ok" THEN "probing"
                                               ELSE "returned"]
           /\ fn_out' = [fn_out EXCEPT ![s] = IF r.res = "ok" THEN @
                                              ELSE "attach_err"]
  /\ UNCHANGED << attachments, facade >>

\* Lines 373-397 of call s: the probe, the detach on self.conn, the clone
\* and the spawn of the worker; an error of the probe returns at once.
ConcCallerDetach(s) ==
  /\ fn_in.pc[s] = "probing"
  /\ \E probe_ok \in BOOLEAN, f \in 0 .. (attachments.n + 1) :
       LET r == conn_detach(View(fn_in.catalog, fn_in.conn_path), attachments, f)
       IN  IF ~probe_ok
             THEN /\ fn_in' = [fn_in EXCEPT !.pc[s] = "returned"]
                  /\ fn_out' = [fn_out EXCEPT ![s] = "probe_err"]
             ELSE /\ fn_in' = [fn_in EXCEPT !.catalog = r.conn.attached,
                                            !.conn_path = r.conn.search_path,
                                            !.pc[s] = IF r.res = "ok" THEN "queued"
                                                      ELSE "returned"]
                  /\ fn_out' = [fn_out EXCEPT ![s] = IF r.res = "ok" THEN @
                                                     ELSE "detach_err"]
  /\ UNCHANGED << attachments, facade >>

\* Line 401 of worker s: attach on its clone.
ConcWorkerAttach(s) ==
  /\ fn_in.pc[s] = "queued"
  /\ \E present \in SUBSET AttIdx(attachments.n), f \in 0 .. (attachments.n + 1) :
       LET r == conn_attach(View(fn_in.catalog, fn_in.clone_path[s]), attachments,
                            present, f)
       IN  /\ fn_in' = [fn_in EXCEPT !.catalog = r.conn.attached,
                                     !.clone_path[s] = r.conn.search_path,
                                     !.pc[s] = IF r.res = "ok" THEN "attached"
                                               ELSE "ended"]
           /\ fn_out' = [fn_out EXCEPT ![s] = IF r.res = "ok" THEN @
                                              ELSE AttachError(r.res)]
  /\ UNCHANGED << attachments, facade >>

\* Lines 402-409 of worker s: prepare the statement, which names a table of
\* auxiliary database tbl without its catalog, and start the stream.
ConcWorkerPrepare(s) ==
  /\ fn_in.pc[s] = "attached"
  /\ \E tbl \in AttIdx(attachments.n), ok \in BOOLEAN :
       LET found == table_resolves(View(fn_in.catalog, fn_in.clone_path[s]), tbl)
       IN  /\ fn_in' = [fn_in EXCEPT !.pc[s] = IF found /\ ok THEN "streaming"
                                               ELSE "ended"]
           /\ fn_out' = [fn_out EXCEPT ![s] = IF ~found THEN "unresolved"
                                              ELSE IF ok THEN @ ELSE "prepare"]
  /\ UNCHANGED << attachments, facade >>

\* Lines 410-415 of worker s: the batches are sent, then detach on the clone.
ConcWorkerDetach(s) ==
  /\ fn_in.pc[s] = "streaming"
  /\ \E f \in 0 .. (attachments.n + 1) :
       LET r == conn_detach(View(fn_in.catalog, fn_in.clone_path[s]), attachments, f)
       IN  /\ fn_in' = [fn_in EXCEPT !.catalog = r.conn.attached,
                                     !.clone_path[s] = r.conn.search_path,
                                     !.pc[s] = "ended"]
           /\ fn_out' = [fn_out EXCEPT ![s] = IF r.res = "ok" THEN "ok"
                                              ELSE "detach"]
  /\ UNCHANGED << attachments, facade >>

ConcNext ==
  \E s \in Sessions :
    \/ ConcCallerAttach(s)
    \/ ConcCallerDetach(s)
    \/ ConcWorkerAttach(s)
    \/ ConcWorkerPrepare(s)
    \/ ConcWorkerDetach(s)

ConcSpec == ConcInit /\ [][ConcNext]_vars

\* C23: while a worker is between its attach and its detach, every alias of
\* the Attachment Set is attached for it and the search path of its clone is
\* the one set, whatever the other call and the other worker do.
C23_NoInterference ==
  \A s \in Sessions :
    fn_in.pc[s] \in {"attached", "streaming"}
      => /\ AttIdx(attachments.n) \subseteq fn_in.catalog
         /\ fn_in.clone_path[s] = "set"

\* ------------------------------------------ attach and detach that fail
\* The index at which a call of attach stops: the first path whose file is
\* missing or whose ATTACH the engine rejects, n when every path went through.
AttachStop ==
  LET bad == {i \in AttIdx(attachments.n) : i \notin fn_in.present \/ fn_in.f = i}
  IN  IF bad = {} THEN attachments.n ELSE Min(bad)

\* The index at which a call of detach stops: the first alias whose DETACH
\* the engine rejects, because it is not attached or for a reason of its
\* own, n when every alias went through.
DetachStop ==
  LET bad == {i \in AttIdx(attachments.n) :
                fn_in.f = i \/ i \notin fn_in.before.attached}
  IN  IF bad = {} THEN attachments.n ELSE Min(bad)

\* C24: an attach that returns an error has left attached the aliases before
\* the path it stopped at, together with what was attached before the call,
\* and has not touched the search path; a detach that returns an error has
\* detached the aliases before the one it stopped at, has left that one and
\* the later ones as they were, and has not reset the search path.
C24_NoRollback ==
  /\ (fn_in.op = "attach" /\ fn_out.res # "ok")
       => /\ conn.attached = fn_in.before.attached \cup AttIdx(AttachStop)
          /\ conn.search_path = fn_in.before.search_path
  /\ (fn_in.op = "detach" /\ fn_out.res # "ok")
       => /\ conn.attached = fn_in.before.attached \ AttIdx(DetachStop)
          /\ \A i \in AttIdx(attachments.n) \ AttIdx(DetachStop) :
               i \in conn.attached <=> i \in fn_in.before.attached
          /\ conn.search_path = fn_in.before.search_path

\* A detach, after a full attach, that the engine rejects at the last alias.
C24_Witness ==
  /\ attachments.n = MaxAtt
  /\ fn_in.op = "detach"
  /\ fn_in.before = [attached |-> AttIdx(MaxAtt), search_path |-> "set"]
  /\ fn_out.res = "engine"
  /\ DetachStop = MaxAtt - 1
  /\ conn = [attached |-> {MaxAtt - 1}, search_path |-> "set"]

\* An attach on a fresh connection that the engine rejects at the last path.
C24_WitnessAttach ==
  /\ attachments.n = MaxAtt
  /\ fn_in.op = "attach"
  /\ fn_in.before = DefaultConn
  /\ fn_out.res = "engine"
  /\ AttachStop = MaxAtt - 1
  /\ conn = [attached |-> AttIdx(MaxAtt - 1), search_path |-> "default"]

====
